---- MODULE Spec2Model ----
(***************************************************************************)
(* The progress trackers of S3/Progress.py: class Progress (the plain,     *)
(* milestone variant) and its subclasses ProgressANSI and ProgressCR.      *)
(*                                                                         *)
(* One tracker object is modelled.  `self` is the record of its instance   *)
(* attributes, `cls` its class.  The clock is counted in ticks,            *)
(* TicksPerSec ticks to the second; datetime.datetime.now() and            *)
(* time.time() read the same clock and a call is instantaneous: every      *)
(* clock reading of one call returns the same tick.                        *)
(*                                                                         *)
(* stdout holds what the last call wrote, raised the exception it ended    *)
(* with ("none" when it returned), event the arguments display() was last  *)
(* invoked with, call the last call and its arguments; again alternates    *)
(* when a call repeats the call before it with the same outcome, so that   *)
(* every call is a step that changes the state.  t_render, t_throttled,     *)
(* reported and saved are history variables the properties read.           *)
(*                                                                         *)
(* Two further specifications share the module.  SpecPair drives two       *)
(* tracker objects, trackers, together with the class attribute            *)
(* Progress._last_display they both can read, Progress_last_display.       *)
(* SpecStats applies StatsInfo.format_output to a StatsInfo object, stats, *)
(* and keeps what it returned in outstr (the empty set before the call).   *)
(* Each specification leaves the variables of the others at their idle     *)
(* values.                                                                 *)
(***************************************************************************)
EXTENDS Integers, Sequences, FiniteSets, TLC

VARIABLES cls, self, now, stdout, raised, event, call, again, t_render, t_throttled, reported,
          saved, trackers, Progress_last_display, stats, outstr

vars == <<cls, self, now, stdout, raised, event, call, again, t_render, t_throttled, reported,
          saved, trackers, Progress_last_display, stats, outstr>>

(***************************************************************************)
(* Bounds of the model.                                                    *)
(***************************************************************************)
\* Clock ticks to the second.
TicksPerSec == 2
\* How many ticks the clock advances after the tracker is constructed.
MaxTicks == 3
\* The largest total_size a transfer is given.
MaxTotal == 3
\* Two trackers: how many ticks the clock advances.
PairTicks == 3
\* The largest count or size a StatsInfo field holds.
MaxCount == 1

(***************************************************************************)
(* Constants of the program.                                               *)
(***************************************************************************)
\* update(): the default of current_position and delta_position.
NotSupplied == -1
\* Progress._last_display, the class attribute.
ClassLastDisplay == 0
\* _display_needed(): the seconds between two throttled renders.
ThrottleSeconds == 1
\* Progress.display(): milestones move by increments of 5.
MilestoneStep == 5

\* Python's None, as the value of done_message.
None == "None"

Classes == {"Progress", "ProgressANSI", "ProgressCR"}
Throttled == {"ProgressANSI", "ProgressCR"}
Labels == {"put", "get"}
TotalSizes == {0, MaxTotal}
\* Positions may overshoot total_size by one.
MaxPos == MaxTotal + 1
\* The arguments of update(): not supplied, another negative number, or a
\* position or delta.
Negative == NotSupplied - 1
Positions == {Negative, NotSupplied} \cup (0 .. MaxPos)
Deltas == {Negative, NotSupplied, 0, 1}
\* The pairs of arguments update() is called with: along with a position,
\* no delta or the delta 1.
UpdateArgs ==
    {a \in Positions \X Deltas : a[1] > NotSupplied => a[2] \in {NotSupplied, 1}}
Messages == {"", "failed"}

\* time.time() is seconds since the epoch: the tracker is constructed more
\* than ThrottleSeconds after time 0.
StartTime == ThrottleSeconds * TicksPerSec + 1
MaxTime == StartTime + MaxTicks

(***************************************************************************)
(* What is written to _stdout: a sequence of tokens.                       *)
(***************************************************************************)
Tok(k, s, f) == [k |-> k, s |-> s, f |-> f]

\* output_labels(): the labels line.
output_labels(labels) == Tok("labels", labels, <<>>)

ANSI_save_cursor_pos == Tok("ANSI_save_cursor_pos", "", <<>>)
ANSI_restore_cursor_pos == Tok("ANSI_restore_cursor_pos", "", <<>>)
ANSI_erase_to_eol == Tok("ANSI_erase_to_eol", "", <<>>)
CR_char == Tok("CR_char", "", <<>>)

\* "  %s\n" % done_message
DoneSuffix(done_message) == Tok("done_message", done_message, <<>>)

\* Python's truth value of done_message: None and "" are false.
Truthy(done_message) == done_message # None /\ done_message # ""

\* The result of a call: the attributes after it, what it wrote, the
\* exception it raised, and the arguments of its display() invocation.
Result(s, out, exc, new_file, done_message) ==
    [self |-> s, out |-> out, raised |-> exc,
     event |-> [new_file |-> new_file, done_message |-> done_message]]

(***************************************************************************)
(* Elapsed time and throughput.  S3.Utils.formatSize is outside this file: *)
(* a line carries the number handed to it, bytes per second as the         *)
(* fraction <<numerator, denominator>>.                                    *)
(***************************************************************************)
\* timedelta = self.time_current - self.time_start, in ticks.
sec_elapsed(s) == s.time_current - s.time_start

\* (self.current_position - self.initial_position) / sec_elapsed
Speed(s) == <<(s.current_position - s.initial_position) * TicksPerSec, sec_elapsed(s)>>

\* ProgressANSI/ProgressCR: print_speed = (0, "") unless sec_elapsed > 0.
print_speed(s) == IF sec_elapsed(s) > 0 THEN Speed(s) ELSE <<0, 1>>

\* self.total_size and ((self.current_position * 100) // self.total_size) or 0
Percent(s) ==
    LET a == IF s.total_size # 0
             THEN (s.current_position * 100) \div s.total_size
             ELSE 0
    IN  IF a # 0 THEN a ELSE 0

\* The format strings of the status line: ProgressCR writes a leading space
\* and pads the elapsed seconds and the speed.
ANSI_format ==
    "%(current)s of %(total)s   %(percent)3d%% in %(elapsed)ds  %(speed).2f %(speed_coeff)sB/s"
CR_format ==
    " %(current)s of %(total)s   %(percent)3d%% in %(elapsed)4ds  %(speed)7.2f %(speed_coeff)sB/s"

\* The status line of ProgressANSI and ProgressCR: the format string, and
\* current, total, percent, elapsed whole seconds, speed.
StatusLine(s, format) ==
    Tok("status", format,
        <<s.current_position, s.total_size, Percent(s),
          sec_elapsed(s) \div TicksPerSec, print_speed(s)[1], print_speed(s)[2]>>)

\* The completion line of Progress: "100%  <size> in <elapsed>s (<speed>)\n".
\* formatSize is taken to return; the division by sec_elapsed is evaluated
\* before its second call and is modelled in Progress_display.
CompletionLine(s) ==
    Tok("completion", "",
        <<s.current_position, sec_elapsed(s), Speed(s)[1], Speed(s)[2]>>)

\* _display_needed with the comparison >= 1: a render at exactly one second.
_display_needed_ge(s, t) ==
    IF t - s._last_display >= ThrottleSeconds * TicksPerSec
    THEN [ret |-> TRUE, self |-> [s EXCEPT !._last_display = t]]
    ELSE [ret |-> FALSE, self |-> s]

\* _display_needed recording the time of every call, suppressed or not.
_display_needed_stamp(s, t) ==
    [ret |-> t - s._last_display > ThrottleSeconds * TicksPerSec,
     self |-> [s EXCEPT !._last_display = t]]

(***************************************************************************)
(* Progress._display_needed: TRUE, and the time recorded, when more than   *)
(* ThrottleSeconds have passed since _last_display.                        *)
(***************************************************************************)
_display_needed(s, t) ==
    IF t - s._last_display > ThrottleSeconds * TicksPerSec
    THEN [ret |-> TRUE, self |-> [s EXCEPT !._last_display = t]]
    ELSE [ret |-> FALSE, self |-> s]

(***************************************************************************)
(* Progress.display.  _stdout.write("%d%% ", self.last_milestone) passes   *)
(* two arguments to write(), which takes one: the call raises TypeError    *)
(* after last_milestone is assigned, and nothing is written.  A division   *)
(* by a zero sec_elapsed or total_size raises ZeroDivisionError.           *)
(***************************************************************************)
Progress_display(s, new_file, done_message, t) ==
    IF new_file
    THEN Result([s EXCEPT !.last_milestone = 0],
                <<output_labels(s.labels)>>, "none", new_file, done_message)
    ELSE IF s.current_position = s.total_size
    THEN IF sec_elapsed(s) = 0
         THEN Result(s, <<>>, "ZeroDivisionError", new_file, done_message)
         ELSE Result(s, <<CompletionLine(s)>>, "none", new_file, done_message)
    ELSE IF s.total_size = 0
    THEN Result(s, <<>>, "ZeroDivisionError", new_file, done_message)
    ELSE LET rel_position == (s.current_position * 100) \div s.total_size
         IN  IF rel_position >= s.last_milestone
             THEN Result([s EXCEPT !.last_milestone =
                              (rel_position \div MilestoneStep) * MilestoneStep],
                         <<>>, "TypeError", new_file, done_message)
             ELSE Result(s, <<>>, "none", new_file, done_message)

\* ProgressANSI.display announcing a new file without saving the cursor
\* position.
ProgressANSI_display_no_save(s, new_file, done_message, t) ==
    IF new_file
    THEN Result(s, <<output_labels(s.labels)>>, "none", new_file, done_message)
    ELSE LET throttled == ~(new_file \/ Truthy(done_message))
             needed == _display_needed(s, t)
             s1 == IF throttled THEN needed.self ELSE s
         IN  IF throttled /\ ~needed.ret
             THEN Result(s1, <<>>, "none", new_file, done_message)
             ELSE Result(s1,
                         <<ANSI_restore_cursor_pos, ANSI_erase_to_eol,
                           StatusLine(s1, ANSI_format)>>
                             \o (IF Truthy(done_message)
                                 THEN <<DoneSuffix(done_message)>> ELSE <<>>),
                         "none", new_file, done_message)

(***************************************************************************)
(* ProgressANSI.display.                                                   *)
(***************************************************************************)
ProgressANSI_display(s, new_file, done_message, t) ==
    IF new_file
    THEN Result(s, <<output_labels(s.labels), ANSI_save_cursor_pos>>,
                "none", new_file, done_message)
    ELSE LET throttled == ~(new_file \/ Truthy(done_message))
             needed == _display_needed(s, t)
             s1 == IF throttled THEN needed.self ELSE s
         IN  IF throttled /\ ~needed.ret
             THEN Result(s1, <<>>, "none", new_file, done_message)
             ELSE Result(s1,
                         <<ANSI_restore_cursor_pos, ANSI_erase_to_eol, StatusLine(s1, ANSI_format)>>
                             \o (IF Truthy(done_message)
                                 THEN <<DoneSuffix(done_message)>> ELSE <<>>),
                         "none", new_file, done_message)

\* ProgressCR.display throttling every call but new_file, a done call with
\* a message included.
ProgressCR_display_done_throttled(s, new_file, done_message, t) ==
    IF new_file
    THEN Result(s, <<output_labels(s.labels)>>, "none", new_file, done_message)
    ELSE LET needed == _display_needed(s, t)
         IN  IF ~needed.ret
             THEN Result(needed.self, <<>>, "none", new_file, done_message)
             ELSE Result(needed.self,
                         <<CR_char, StatusLine(needed.self, CR_format)>>
                             \o (IF Truthy(done_message)
                                 THEN <<DoneSuffix(done_message)>> ELSE <<>>),
                         "none", new_file, done_message)

(***************************************************************************)
(* ProgressCR.display.                                                     *)
(***************************************************************************)
ProgressCR_display(s, new_file, done_message, t) ==
    IF new_file
    THEN Result(s, <<output_labels(s.labels)>>, "none", new_file, done_message)
    ELSE LET throttled == ~(new_file \/ Truthy(done_message))
             needed == _display_needed(s, t)
             s1 == IF throttled THEN needed.self ELSE s
         IN  IF throttled /\ ~needed.ret
             THEN Result(s1, <<>>, "none", new_file, done_message)
             ELSE Result(s1,
                         <<CR_char, StatusLine(s1, CR_format)>>
                             \o (IF Truthy(done_message)
                                 THEN <<DoneSuffix(done_message)>> ELSE <<>>),
                         "none", new_file, done_message)

\* self.display(...): the method of the object's class.
display(c, s, new_file, done_message, t) ==
    CASE c = "Progress" -> Progress_display(s, new_file, done_message, t)
      [] c = "ProgressANSI" -> ProgressANSI_display(s, new_file, done_message, t)
      [] c = "ProgressCR" -> ProgressCR_display(s, new_file, done_message, t)

(***************************************************************************)
(* Progress.new_file, Progress.update, Progress.done.                      *)
(***************************************************************************)
\* new_file without the reset of current_position.
new_file_keeps_position(c, s, labels, total_size, t) ==
    display(c,
            [s EXCEPT !.labels = labels,
                      !.total_size = total_size,
                      !.initial_position = 0,
                      !.time_start = t,
                      !.time_last = t,
                      !.time_current = t],
            TRUE, None, t)

new_file(c, s, labels, total_size, t) ==
    display(c,
            [s EXCEPT !.labels = labels,
                      !.total_size = total_size,
                      !.initial_position = 0,
                      !.current_position = 0,
                      !.time_start = t,
                      !.time_last = t,
                      !.time_current = t],
            TRUE, None, t)

\* update with the two tests in the other order: a delta wins over an
\* absolute position.
update_delta_first(c, s, current_position, delta_position, t) ==
    LET s1 == [s EXCEPT !.time_last = s.time_current, !.time_current = t]
        s2 == IF delta_position > NotSupplied
              THEN [s1 EXCEPT !.current_position = s1.current_position + delta_position]
              ELSE IF current_position > NotSupplied
              THEN [s1 EXCEPT !.current_position = current_position]
              ELSE s1
    IN  display(c, s2, FALSE, None, t)

\* update testing the arguments against the default, -1, only: any other
\* number, negative ones included, is a position or a delta.
update_any_number(c, s, current_position, delta_position, t) ==
    LET s1 == [s EXCEPT !.time_last = s.time_current, !.time_current = t]
        s2 == IF current_position # NotSupplied
              THEN [s1 EXCEPT !.current_position = current_position]
              ELSE IF delta_position # NotSupplied
              THEN [s1 EXCEPT !.current_position = s1.current_position + delta_position]
              ELSE s1
    IN  display(c, s2, FALSE, None, t)

update(c, s, current_position, delta_position, t) ==
    LET s1 == [s EXCEPT !.time_last = s.time_current, !.time_current = t]
        s2 == IF current_position > NotSupplied
              THEN [s1 EXCEPT !.current_position = current_position]
              ELSE IF delta_position > NotSupplied
              THEN [s1 EXCEPT !.current_position = s1.current_position + delta_position]
              ELSE s1
    IN  display(c, s2, FALSE, None, t)

\* done reading the clock as update does before it renders.
done_reads_clock(c, s, message, t) ==
    display(c, [s EXCEPT !.time_last = s.time_current, !.time_current = t],
            FALSE, message, t)

done(c, s, message, t) == display(c, s, FALSE, message, t)

\* Progress.__init__: the attributes before new_file assigns them.  The
\* class attribute _last_display is what the instance reads until
\* _display_needed assigns its own; last_milestone is assigned by
\* Progress.display only.
Blank ==
    [labels |-> "", total_size |-> 0, initial_position |-> 0,
     current_position |-> 0, time_start |-> 0, time_last |-> 0,
     time_current |-> 0, last_milestone |-> 0,
     _last_display |-> ClassLastDisplay]

__init__(c, labels, total_size, t) == new_file(c, Blank, labels, total_size, t)

(***************************************************************************)
(* History the properties read.                                            *)
(***************************************************************************)
\* Whether a call wrote a status line (ProgressANSI, ProgressCR).
HasStatus(out) == \E i \in 1 .. Len(out) : out[i].k = "status"

\* Whether a call wrote the save-cursor sequence.
HasSave(out) == \E i \in 1 .. Len(out) : out[i] = ANSI_save_cursor_pos

\* Whether a call wrote a done message.
HasMessage(out, m) == \E i \in 1 .. Len(out) : out[i].k = "done_message" /\ out[i].s = m

\* Whether a call of the plain variant wrote a percentage: a milestone
\* fragment or the completion line.
HasPercent(out) == \E i \in 1 .. Len(out) : out[i].k \in {"milestone", "completion"}

\* The 5% threshold a position has reached; current_position = total_size
\* is complete, a total_size of 0 is 0% otherwise.
Band(s) ==
    IF s.current_position = s.total_size THEN 100
    ELSE IF s.total_size = 0 THEN 0
    ELSE (((s.current_position * 100) \div s.total_size) \div MilestoneStep) * MilestoneStep

CallRecord(op, labels, total_size, current_position, delta_position, message) ==
    [op |-> op, labels |-> labels, total_size |-> total_size,
     current_position |-> current_position, delta_position |-> delta_position,
     message |-> message]

\* The highest percentage written so far in the current transfer (empty
\* when none was), after a call c that leaves the attributes s and wrote
\* out.
ReportedAfter(c, s, out) ==
    IF c.op = "new_file" THEN {}
    ELSE IF HasPercent(out)
    THEN {b \in reported \cup {Band(s)} : \A x \in reported \cup {Band(s)} : x <= b}
    ELSE reported

\* The variables after a call c with result r.  t_render is when a status
\* line was last written, t_throttled when a throttled call (one without a
\* done message) last wrote one, saved whether the new_file of the current
\* transfer wrote the save-cursor sequence.
Commit(r, c) ==
    LET t_render1 == IF HasStatus(r.out) THEN {now} ELSE t_render
        t_throttled1 == IF HasStatus(r.out) /\ ~Truthy(r.event.done_message)
                        THEN {now} ELSE t_throttled
        reported1 == ReportedAfter(c, r.self, r.out)
        same == /\ r.self = self /\ r.out = stdout /\ r.raised = raised
                /\ r.event = event /\ c = call /\ t_render1 = t_render
                /\ t_throttled1 = t_throttled /\ reported1 = reported
    IN  /\ self' = r.self
        /\ stdout' = r.out
        /\ raised' = r.raised
        /\ event' = r.event
        /\ call' = c
        /\ again' = IF same THEN ~again ELSE FALSE
        /\ t_render' = t_render1
        /\ t_throttled' = t_throttled1
        /\ reported' = reported1
        /\ saved' = IF c.op = "new_file" THEN HasSave(r.out) ELSE saved
        /\ UNCHANGED <<cls, now, trackers, Progress_last_display, stats, outstr>>

(***************************************************************************)
(* The idle values of the variables a specification does not use: no       *)
(* second tracker object, the class attribute as the class statement left  *)
(* it, no StatsInfo object.                                                *)
(***************************************************************************)
PairIdle == trackers = <<>> /\ Progress_last_display = ClassLastDisplay

StatsIdle == stats = <<>> /\ outstr = {}

(***************************************************************************)
(* The state machine of one tracker.                                       *)
(***************************************************************************)
Init ==
    \E c \in Classes, labels \in Labels, total_size \in TotalSizes :
        LET r == __init__(c, labels, total_size, StartTime)
        IN  /\ cls = c
            /\ now = StartTime
            /\ self = r.self
            /\ stdout = r.out
            /\ raised = r.raised
            /\ event = r.event
            /\ call = CallRecord("new_file", labels, total_size,
                                 NotSupplied, NotSupplied, None)
            /\ again = FALSE
            /\ t_render = {}
            /\ t_throttled = {}
            /\ reported = {}
            /\ saved = HasSave(r.out)
            /\ PairIdle
            /\ StatsIdle

NewFile(labels, total_size) ==
    /\ labels \in Labels /\ total_size \in TotalSizes
    /\ Commit(new_file(cls, self, labels, total_size, now),
              CallRecord("new_file", labels, total_size, NotSupplied, NotSupplied, None))

\* A delta keeps the position within MaxPos.
Update(current_position, delta_position) ==
    /\ current_position <= NotSupplied /\ delta_position > NotSupplied
          => self.current_position + delta_position <= MaxPos
    /\ Commit(update(cls, self, current_position, delta_position, now),
              CallRecord("update", "", 0, current_position, delta_position, None))

Done(message) ==
    /\ message \in Messages
    /\ Commit(done(cls, self, message, now),
              CallRecord("done", "", 0, NotSupplied, NotSupplied, message))

\* The clock advances between calls.
Tick ==
    /\ now < MaxTime
    /\ now' = now + 1
    /\ UNCHANGED <<cls, self, stdout, raised, event, call, again, t_render, t_throttled,
                   reported, saved, trackers, Progress_last_display, stats, outstr>>

Next ==
    \/ \E labels \in Labels, total_size \in TotalSizes : NewFile(labels, total_size)
    \/ \E a \in UpdateArgs : Update(a[1], a[2])
    \/ \E message \in Messages : Done(message)
    \/ Tick

Spec == Init /\ [][Next]_vars

(***************************************************************************)
(* Properties.  A step that leaves the clock alone and changes the state   *)
(* is a call: call' is the call made, the unprimed variables the state it  *)
(* was made in, now the time it was made at.                               *)
(***************************************************************************)
IsCall == now' = now

\* One second, in ticks.
OneSecond == ThrottleSeconds * TicksPerSec

\* C1: ProgressANSI and ProgressCR: of two consecutive update calls at
\* times t1 < t2 with t2 - t1 <= 1 second, the first of which wrote a status
\* line, the second writes nothing.
C1_SecondUpdateWithinASecondSuppressed ==
    [][(/\ IsCall
        /\ cls \in Throttled
        /\ call.op = "update" /\ HasStatus(stdout)
        /\ call'.op = "update"
        /\ self.time_current < now
        /\ now - self.time_current <= OneSecond)
       => stdout' = <<>>]_vars

\* C1 witness: an update at t2 wrote nothing; the update before it was made
\* at t1 = time_last, t1 < t2 <= t1 + 1 second, and a throttled status line
\* was written at t1.
C1_Witness ==
    /\ cls \in Throttled
    /\ call.op = "update" /\ stdout = <<>>
    /\ self.time_start < self.time_last
    /\ self.time_last < self.time_current
    /\ self.time_current - self.time_last <= OneSecond
    /\ t_throttled = {self.time_last}

\* C2 as stated: ProgressANSI and ProgressCR: a call writes a status line
\* only if more than 1 second has passed since the last status line written
\* by any call, or it carries a done message, or it is a new_file
\* announcement.
C2_RenderOnlyAfterLastRender ==
    [][(IsCall /\ cls \in Throttled /\ HasStatus(stdout'))
       => \/ \A tr \in t_render : now - tr > OneSecond
          \/ Truthy(call'.message)
          \/ call'.op = "new_file"]_vars

\* C2 amended: ProgressANSI and ProgressCR: a call writes a status line only
\* if more than 1 second has passed since the last status line written by a
\* throttled call (an update, or a done without a message), or it carries a
\* done message, or it is a new_file announcement.
C2_RenderOnlyAfterLastThrottledRender ==
    [][(IsCall /\ cls \in Throttled /\ HasStatus(stdout'))
       => \/ \A tr \in t_throttled : now - tr > OneSecond
          \/ Truthy(call'.message)
          \/ call'.op = "new_file"]_vars

\* C2 witness: an update wrote a status line, and it is not the first
\* update of its transfer: a throttled status line was written before it.
C2_Witness ==
    /\ cls \in Throttled
    /\ call.op = "update" /\ HasStatus(stdout)
    /\ self.time_start < self.time_last
    /\ t_throttled = {self.time_current}
    /\ self._last_display = self.time_current

C4_UpdateContract ==
    [][(IsCall /\ call'.op = "update")
       => /\ self'.time_last = self.time_current
          /\ self'.time_current = now
          /\ self'.current_position =
                IF call'.current_position > -1 THEN call'.current_position
                ELSE IF call'.delta_position > -1
                THEN self.current_position + call'.delta_position
                ELSE self.current_position
          /\ event' = [new_file |-> FALSE, done_message |-> None]]_vars

\* C4 witness: an update with both arguments supplied has set the position
\* to the absolute one, after the clock moved.
C4_Witness ==
    /\ call.op = "update"
    /\ call.current_position > -1 /\ call.delta_position > -1
    /\ self.current_position = call.current_position
    /\ self.time_last < self.time_current

\* C5: new_file, from any state, sets initial_position = current_position
\* = 0 and the three times to now, installs labels and total_size, writes
\* the labels line, resets last_milestone to 0 in the plain variant, and
\* raises nothing.
C5_NewFileResets ==
    [][(IsCall /\ call'.op = "new_file")
       => /\ self'.initial_position = 0
          /\ self'.current_position = 0
          /\ self'.time_start = now
          /\ self'.time_last = now
          /\ self'.time_current = now
          /\ self'.labels = call'.labels
          /\ self'.total_size = call'.total_size
          /\ stdout' # <<>>
          /\ Head(stdout') = output_labels(call'.labels)
          /\ cls = "Progress" => self'.last_milestone = 0
          /\ raised' = "none"]_vars

\* C5 witness: new_file was called on a tracker in use: after the
\* construction, and after an update was rendered.
C5_Witness ==
    /\ call.op = "new_file"
    /\ self.time_start > StartTime
    /\ self._last_display > ClassLastDisplay
    /\ self.current_position = 0
    /\ raised = "none"

\* C6: in every variant, two done(msg) calls in succession each write a
\* terminal status line with msg appended.  Stated for a non-empty msg and
\* two calls that return.
C6_DoneTwiceWritesMessageTwice ==
    [][(/\ IsCall
        /\ call.op = "done" /\ call'.op = "done"
        /\ call'.message = call.message
        /\ Truthy(call.message)
        /\ raised = "none" /\ raised' = "none")
       => /\ HasMessage(stdout, call.message)
          /\ HasMessage(stdout', call'.message)]_vars

\* C7: with total_size = 0, in every variant, no update or done call
\* raises a division by zero, whatever the position.  Stated for a call
\* made after time has passed since new_file.
C7_ZeroTotalNeverDivides ==
    (/\ self.total_size = 0
     /\ call.op \in {"update", "done"}
     /\ self.time_current > self.time_start)
        => raised # "ZeroDivisionError"

\* C8: in every variant, a render that computes the throughput with zero
\* elapsed time (time_current = time_start) raises nothing.  The plain
\* variant computes the throughput in its completion line, written when
\* current_position = total_size.
C8_ZeroElapsedNeverRaises ==
    (/\ call.op \in {"update", "done"}
     /\ self.time_current = self.time_start
     /\ cls = "Progress" => self.current_position = self.total_size)
        => raised = "none"

\* C9: plain variant: across update calls with non-decreasing
\* current_position, last_milestone does not decrease and is a multiple of
\* 5 in [0, 100].
C9_MilestoneMonotoneInRange ==
    [][(/\ IsCall /\ cls = "Progress" /\ call'.op = "update"
        /\ self'.current_position >= self.current_position)
       => /\ self'.last_milestone >= self.last_milestone
          /\ self'.last_milestone % 5 = 0
          /\ self'.last_milestone \in 0 .. 100]_vars

\* C10: plain variant: an update or done call writes a percentage only
\* when the position has crossed a 5% threshold above every percentage
\* written before in the transfer; a call that crosses none writes nothing.
C10_PercentOnlyOnNewThreshold ==
    [][(/\ IsCall /\ cls = "Progress" /\ call'.op \in {"update", "done"}
        /\ stdout' # <<>>)
       => \A b \in reported : Band(self') > b]_vars

\* C11: plain variant: an update or done call that returns with
\* current_position = total_size has written the completion line and
\* nothing else, and once the completion line was written in a transfer, no
\* later update or done call of the transfer writes a percentage again.
C11_CompletionLineOnceThenSilence ==
    [][(/\ IsCall /\ cls = "Progress" /\ call'.op \in {"update", "done"}
        /\ raised' = "none")
       => /\ self'.current_position = self'.total_size
                => stdout' = <<CompletionLine(self')>>
          /\ 100 \in reported => ~HasPercent(stdout')]_vars

(***************************************************************************)
(* Two tracker objects.  An object reads self._last_display from its own   *)
(* attribute once it has assigned one (own), and from the class attribute  *)
(* Progress._last_display until then; it assigns self._last_display.  In   *)
(* the record of an object that has assigned none, _last_display stays at  *)
(* ClassLastDisplay and is not read.                                       *)
(***************************************************************************)
Instances == {1, 2}

TrackerIdle ==
    /\ cls = "" /\ self = Blank /\ stdout = <<>> /\ raised = "none"
    /\ event = [new_file |-> FALSE, done_message |-> None]
    /\ call = CallRecord("", "", 0, NotSupplied, NotSupplied, None)
    /\ again = FALSE /\ t_render = {} /\ t_throttled = {} /\ reported = {}
    /\ saved = FALSE

\* The attributes a method of tracker tr reads.
getattr(tr, class_value) ==
    [tr.self EXCEPT !._last_display = IF tr.own THEN @ ELSE class_value]

\* self._last_display = time.time() assigning the class attribute.
setattr_of_class(tr, before, after, class_value) ==
    IF after._last_display # before._last_display
    THEN [tracker |-> [tr EXCEPT !.self = [after EXCEPT !._last_display =
                                                  tr.self._last_display]],
          class_value |-> after._last_display]
    ELSE [tracker |-> [tr EXCEPT !.self = [after EXCEPT !._last_display =
                                                  tr.self._last_display]],
          class_value |-> class_value]

\* The attributes of tracker tr and the class attribute after a method that
\* read before and left after: self._last_display = time.time() makes an
\* attribute of the object.
setattr(tr, before, after, class_value) ==
    IF after._last_display # before._last_display
    THEN [tracker |-> [tr EXCEPT !.self = after, !.own = TRUE],
          class_value |-> class_value]
    ELSE [tracker |-> [tr EXCEPT !.self = [after EXCEPT !._last_display =
                                                  tr.self._last_display]],
          class_value |-> class_value]

\* The variables after a method of tracker i that returned r.
PairCommit(i, r) ==
    LET st == setattr(trackers[i], getattr(trackers[i], Progress_last_display),
                      r.self, Progress_last_display)
    IN  /\ trackers' = [trackers EXCEPT ![i] = st.tracker]
        /\ Progress_last_display' = st.class_value
        /\ UNCHANGED <<cls, self, now, stdout, raised, event, call, again, t_render,
                       t_throttled, reported, saved, stats, outstr>>

\* The first tracker is a ProgressANSI, the second of any class.
PairInit ==
    /\ now = StartTime
    /\ TrackerIdle
    /\ StatsIdle
    /\ Progress_last_display = ClassLastDisplay
    /\ \E c1 \in {"ProgressANSI"}, c2 \in Classes :
          trackers =
              [i \in Instances |->
                  [cls |-> IF i = 1 THEN c1 ELSE c2,
                   self |-> __init__(IF i = 1 THEN c1 ELSE c2, "put", MaxTotal,
                                     StartTime).self,
                   own |-> FALSE]]

PairNewFile(i) ==
    /\ i \in Instances
    /\ PairCommit(i, new_file(trackers[i].cls,
                              getattr(trackers[i], Progress_last_display),
                              "put", MaxTotal, now))

\* update(), or update(current_position = total_size).
PairUpdate(i, current_position) ==
    /\ i \in Instances
    /\ current_position \in {NotSupplied, MaxTotal}
    /\ PairCommit(i, update(trackers[i].cls,
                            getattr(trackers[i], Progress_last_display),
                            current_position, NotSupplied, now))

PairDone(i, message) ==
    /\ i \in Instances
    /\ PairCommit(i, done(trackers[i].cls,
                          getattr(trackers[i], Progress_last_display),
                          message, now))

PairTick ==
    /\ now < StartTime + PairTicks
    /\ now' = now + 1
    /\ UNCHANGED <<cls, self, stdout, raised, event, call, again, t_render, t_throttled,
                   reported, saved, trackers, Progress_last_display, stats, outstr>>

PairNext ==
    \/ \E i \in Instances : PairNewFile(i)
    \/ \E i \in Instances, current_position \in {NotSupplied, MaxTotal} :
          PairUpdate(i, current_position)
    \/ \E i \in Instances, message \in Messages : PairDone(i, message)
    \/ PairTick

SpecPair == PairInit /\ [][PairNext]_vars

\* A method call on tracker i.
PairCall(i) ==
    \/ PairNewFile(i)
    \/ \E current_position \in {NotSupplied, MaxTotal} : PairUpdate(i, current_position)
    \/ \E message \in Messages : PairDone(i, message)

\* What the next update() of tracker j would return, made now.
NextUpdate(j) ==
    update(trackers[j].cls, getattr(trackers[j], Progress_last_display),
           NotSupplied, NotSupplied, now)

\* C12: of two trackers driven in any interleaving, a call on one leaves
\* the attributes of the other unchanged, leaves unchanged what the next
\* update of the other would do (render or suppress, and what it writes),
\* and leaves the class attribute Progress._last_display unchanged: the
\* last-display timestamp is assigned on the instance.  Stated as: a step
\* that changes any of these is no call on the first tracker.
C12_TrackersShareNoState ==
    [][\A i \in Instances : \A j \in Instances \ {i} :
          (\/ Progress_last_display' # Progress_last_display
           \/ trackers'[j] # trackers[j]
           \/ NextUpdate(j)' # NextUpdate(j))
              => ~PairCall(i)]_vars

\* C12 witness: tracker 1 has just written a status line and recorded the
\* time, after the clock moved; tracker 2, a throttled tracker that has
\* written none yet, would still write one on its next update.
C12_Witness ==
    /\ trackers # <<>>
    /\ now > StartTime
    /\ trackers[1].own /\ trackers[1].self._last_display = now
    /\ trackers[2].cls \in Throttled /\ ~trackers[2].own
    /\ HasStatus(NextUpdate(2).out)

(***************************************************************************)
(* StatsInfo.  A field holds None, written Absent, or an integer n,        *)
(* written <<n>>.  What format_output returns is the sequence of its       *)
(* lines: each the prefix, the format of the count, the count, and the     *)
(* size that " (%d bytes) " is appended with, Absent when it is not.       *)
(***************************************************************************)
Absent == <<>>

Fields == {"files", "size", "files_transferred", "size_transferred",
           "files_copied", "size_copied", "files_deleted", "size_deleted"}

StatsValues == {Absent} \cup {<<n>> : n \in 0 .. MaxCount}

\* Python's truth value of a field: None and 0 are false.
IsSet(v) == v # Absent /\ v # <<0>>

\* u"\nStats: " + tmp_str
StatsLine(text, files, size) ==
    [prefix |-> "\nStats: ", text |-> text, files |-> files[1], bytes |-> size]

\* format_output testing self.files as it tests the other counts.
format_output_files_nonzero(st) ==
    (IF IsSet(st.files)
     THEN <<StatsLine("Number of files: %d", st.files, st.size)>> ELSE <<>>)
    \o (IF IsSet(st.files_transferred)
        THEN <<StatsLine("Number of files transferred: %d",
                         st.files_transferred, st.size_transferred)>> ELSE <<>>)
    \o (IF IsSet(st.files_copied)
        THEN <<StatsLine("Number of files copied: %d",
                         st.files_copied, st.size_copied)>> ELSE <<>>)
    \o (IF IsSet(st.files_deleted)
        THEN <<StatsLine("Number of files deleted: %d",
                         st.files_deleted, st.size_deleted)>> ELSE <<>>)

format_output(st) ==
    (IF st.files # Absent
     THEN <<StatsLine("Number of files: %d", st.files, st.size)>> ELSE <<>>)
    \o (IF IsSet(st.files_transferred)
        THEN <<StatsLine("Number of files transferred: %d",
                         st.files_transferred, st.size_transferred)>> ELSE <<>>)
    \o (IF IsSet(st.files_copied)
        THEN <<StatsLine("Number of files copied: %d",
                         st.files_copied, st.size_copied)>> ELSE <<>>)
    \o (IF IsSet(st.files_deleted)
        THEN <<StatsLine("Number of files deleted: %d",
                         st.files_deleted, st.size_deleted)>> ELSE <<>>)

\* A StatsInfo object whose fields the caller has assigned.
StatsInit ==
    /\ now = StartTime
    /\ TrackerIdle
    /\ PairIdle
    /\ stats \in [Fields -> StatsValues]
    /\ outstr = {}

FormatOutput ==
    /\ outstr' = {format_output(stats)}
    /\ UNCHANGED <<cls, self, now, stdout, raised, event, call, again, t_render,
                   t_throttled, reported, saved, trackers, Progress_last_display, stats>>

StatsNext == FormatOutput

SpecStats == StatsInit /\ [][StatsNext]_vars

\* The categories in the order of the report: the format of the line, the
\* count field and the size field.
Categories ==
    <<[text |-> "Number of files: %d", files |-> "files", size |-> "size"],
      [text |-> "Number of files transferred: %d",
       files |-> "files_transferred", size |-> "size_transferred"],
      [text |-> "Number of files copied: %d",
       files |-> "files_copied", size |-> "size_copied"],
      [text |-> "Number of files deleted: %d",
       files |-> "files_deleted", size |-> "size_deleted"]>>

\* C13: format_output returns the total line exactly when files is not
\* absent (also when it is 0), and the line of transferred, copied and
\* deleted exactly when its count is set and not 0; a line carries its
\* count, and " (<size> bytes) " exactly when the matching size is present,
\* with that size; a size whose count is absent or 0 gives no line; every
\* line has the prefix "\nStats: "; the lines are in the order total,
\* transferred, copied, deleted, each at most once.
C13_FormatOutputLines ==
    \A out \in outstr :
        /\ \A c \in 1 .. Len(Categories) :
              LET emitted == \E i \in 1 .. Len(out) : out[i].text = Categories[c].text
                  files == stats[Categories[c].files]
              IN  emitted <=> IF c = 1 THEN files # Absent
                              ELSE files # Absent /\ files # <<0>>
        /\ \A i \in 1 .. Len(out) :
              /\ out[i].prefix = "\nStats: "
              /\ \E c \in 1 .. Len(Categories) :
                    /\ out[i].text = Categories[c].text
                    /\ <<out[i].files>> = stats[Categories[c].files]
                    /\ out[i].bytes = stats[Categories[c].size]
        /\ \A i \in 1 .. Len(out), j \in 1 .. Len(out) :
              i < j => \E c \in 1 .. Len(Categories), d \in 1 .. Len(Categories) :
                          /\ c < d
                          /\ out[i].text = Categories[c].text
                          /\ out[j].text = Categories[d].text

\* C13 witness: format_output has returned two lines for a StatsInfo with
\* files = 0 and a size, a transferred count of 0 with a size (no line),
\* no copied count, and a deleted count without a size.
C13_Witness ==
    /\ outstr # {}
    /\ stats # <<>>
    /\ stats.files = <<0>> /\ stats.size # Absent
    /\ stats.files_transferred = <<0>> /\ stats.size_transferred # Absent
    /\ stats.files_copied = Absent
    /\ stats.files_deleted = <<1>> /\ stats.size_deleted = Absent
    /\ \A out \in outstr : Len(out) = 2

\* C14: in every state reached by new_file, update and done calls, with
\* negative arguments of update among them and a clock that does not go
\* backwards, current_position >= initial_position and
\* time_start <= time_last <= time_current.
C14_DataModelInvariant ==
    cls \in Classes
        => /\ self.current_position >= self.initial_position
           /\ self.time_start <= self.time_last
           /\ self.time_last <= self.time_current

\* C14 witness: an update with a negative position and a negative delta
\* was made on a transfer that has advanced, two updates and two clock
\* readings after its new_file; the position is still the one reached.
C14_Witness ==
    /\ call.op = "update"
    /\ call.current_position = Negative /\ call.delta_position = Negative
    /\ self.current_position > self.initial_position
    /\ self.time_start < self.time_last
    /\ self.time_last < self.time_current

\* The fragment "%d%% " % last_milestone of the plain variant.
MilestoneFragment(milestone) == Tok("milestone", "", <<milestone>>)

\* C15: plain variant: an update that leaves the position short of
\* total_size, with total_size > 0, and whose percent has reached a 5%
\* boundary above last_milestone writes exactly one fragment, whose value
\* is (percent // 5) * 5, whatever the time since the previous output.
C15_NewBoundaryWritesOneFragment ==
    [][(/\ IsCall /\ cls = "Progress" /\ call'.op = "update"
        /\ self'.total_size > 0
        /\ self'.current_position # self'.total_size
        /\ Band(self') > self.last_milestone)
       => stdout' = <<MilestoneFragment(Band(self'))>>]_vars

\* The call ca made at time t on an object of class c with attributes s.
Method(c, s, ca, t) ==
    CASE ca.op = "new_file" -> new_file(c, s, ca.labels, ca.total_size, t)
      [] ca.op = "update" -> update(c, s, ca.current_position, ca.delta_position, t)
      [] ca.op = "done" -> done(c, s, ca.message, t)

\* The other of the two throttled classes.
OtherThrottled(c) == IF c = "ProgressANSI" THEN "ProgressCR" ELSE "ProgressANSI"

\* The control sequences and characters.
ControlTokens ==
    {ANSI_save_cursor_pos, ANSI_restore_cursor_pos, ANSI_erase_to_eol, CR_char}

\* What was written, without the control sequences and characters.
Text(out) == SelectSeq(out, LAMBDA x : x \notin ControlTokens)

\* What was written, without the control sequences and characters and with
\* the values of a status line taken out of its format.
Reported(out) ==
    [i \in 1 .. Len(Text(out)) |->
        IF Text(out)[i].k = "status" THEN [Text(out)[i] EXCEPT !.s = ""]
        ELSE Text(out)[i]]

\* C16 as stated: a ProgressANSI and a ProgressCR constructed alike have
\* the same attributes, and from the same attributes the same call at the
\* same time leaves them with the same attributes and writes the same but
\* for the control characters.
C16_SameButControlCharacters ==
    /\ cls \in Throttled
          => LET r == __init__(OtherThrottled(cls), call.labels, call.total_size, now)
             IN  r.self = self /\ Text(r.out) = Text(stdout)
    /\ [][(IsCall /\ cls \in Throttled)
            => LET r == Method(OtherThrottled(cls), self, call', now)
               IN  /\ r.self = self'
                   /\ r.raised = raised'
                   /\ Text(r.out) = Text(stdout')]_vars

\* C16 amended: a ProgressANSI and a ProgressCR constructed alike have the
\* same attributes, and from the same attributes the same call at the same
\* time leaves them with the same attributes, writes a status line in both
\* or in neither, with the same position, total, percent, elapsed seconds
\* and rate, and the same labels line and done message.  What they write
\* differs in the control characters and in the format of the status line.
C16_SameCallsRenderedSameValues ==
    /\ cls \in Throttled
          => LET r == __init__(OtherThrottled(cls), call.labels, call.total_size, now)
             IN  r.self = self /\ Reported(r.out) = Reported(stdout)
    /\ [][(IsCall /\ cls \in Throttled)
            => LET r == Method(OtherThrottled(cls), self, call', now)
               IN  /\ r.self = self'
                   /\ r.raised = raised'
                   /\ Reported(r.out) = Reported(stdout')]_vars

\* C16 witness: a ProgressCR wrote a status line with its done message less
\* than a second after an update wrote one, with a position and a time
\* elapsed to report.
C16_Witness ==
    /\ cls = "ProgressCR"
    /\ call.op = "done" /\ HasMessage(stdout, "failed") /\ HasStatus(stdout)
    /\ \E tr \in t_throttled : now > tr /\ now - tr <= OneSecond
    /\ self.current_position > 0
    /\ self.time_current > self.time_start

\* C17: ProgressANSI: a call that writes restore-cursor is not a new_file
\* and is made in a transfer whose new_file wrote save-cursor; new_file
\* writes the labels line and then save-cursor; every status line comes
\* right after restore-cursor and erase-to-end-of-line, in that order, and
\* these two are written nowhere else; the status line is followed by the
\* done message and its newline exactly when the call carries a done
\* message (one that is neither None nor empty), and ends the output
\* otherwise.
C17_CursorProtocol ==
    [][(IsCall /\ cls = "ProgressANSI")
       => /\ call'.op = "new_file"
                => stdout' = <<output_labels(call'.labels), ANSI_save_cursor_pos>>
          /\ \A i \in 1 .. Len(stdout') :
                /\ stdout'[i] = ANSI_restore_cursor_pos
                      => /\ call'.op # "new_file" /\ saved
                         /\ i + 2 <= Len(stdout')
                         /\ stdout'[i + 1] = ANSI_erase_to_eol
                         /\ stdout'[i + 2].k = "status"
                /\ stdout'[i] = ANSI_erase_to_eol
                      => i > 1 /\ stdout'[i - 1] = ANSI_restore_cursor_pos
                /\ stdout'[i].k = "status"
                      => /\ i > 2
                         /\ stdout'[i - 2] = ANSI_restore_cursor_pos
                         /\ stdout'[i - 1] = ANSI_erase_to_eol
                         /\ IF Truthy(call'.message)
                            THEN /\ Len(stdout') = i + 1
                                 /\ stdout'[i + 1] = DoneSuffix(call'.message)
                            ELSE Len(stdout') = i]_vars

\* C17 witness: in the second transfer of a ProgressANSI, after an update
\* wrote a status line, a done call wrote restore-cursor, erase-to-end-of-
\* line, the status line and its message.
C17_Witness ==
    /\ cls = "ProgressANSI"
    /\ saved
    /\ self.time_start > StartTime
    /\ t_throttled # {} /\ \A tr \in t_throttled : tr >= self.time_start
    /\ call.op = "done"
    /\ Len(stdout) = 4
    /\ stdout[1] = ANSI_restore_cursor_pos
    /\ stdout[2] = ANSI_erase_to_eol
    /\ stdout[3].k = "status"
    /\ stdout[4] = DoneSuffix("failed")

\* C18: ProgressANSI and ProgressCR: a call changes _last_display only if
\* it is a throttled call (no new_file, no done message that is not empty)
\* that is not suppressed, and then to the time of the call; so new_file, a
\* done call with a non-empty message and a suppressed update leave it
\* unchanged, and a throttled call that is not suppressed sets it.
C18_LastDisplayFrame ==
    [][(IsCall /\ cls \in Throttled)
       => /\ self'._last_display # self._last_display
                => /\ call'.op # "new_file"
                   /\ ~Truthy(call'.message)
                   /\ HasStatus(stdout')
                   /\ self'._last_display = now
          /\ (call'.op # "new_file" /\ ~Truthy(call'.message) /\ HasStatus(stdout'))
                => self'._last_display = now]_vars

\* C18 witness: a throttled tracker is reused with new_file less than a
\* second after an update wrote a status line, and _last_display still
\* holds the time of that update, in the transfer before.
C18_Witness ==
    /\ cls \in Throttled
    /\ call.op = "new_file"
    /\ self._last_display > ClassLastDisplay
    /\ self._last_display < self.time_start
    /\ self.time_start - self._last_display <= OneSecond

\* C19: in every variant, a done call leaves labels, total_size,
\* initial_position, current_position, time_start, time_last, time_current
\* and last_milestone as they were.
C19_DoneChangesNoAttribute ==
    [][(IsCall /\ call'.op = "done")
       => /\ self'.labels = self.labels
          /\ self'.total_size = self.total_size
          /\ self'.initial_position = self.initial_position
          /\ self'.current_position = self.current_position
          /\ self'.time_start = self.time_start
          /\ self'.time_last = self.time_last
          /\ self'.time_current = self.time_current
          /\ self'.last_milestone = self.last_milestone]_vars

\* C19 witness: a done call was made after the clock moved on from the
\* last update of a transfer in progress: the times and the position are
\* those of that update.
C19_Witness ==
    /\ call.op = "done"
    /\ self.time_current < now
    /\ self.time_start < self.time_last
    /\ self.time_last < self.time_current
    /\ self.current_position > 0
    /\ self.current_position < self.total_size

====
